---- MODULE Spec2Model ----
(***************************************************************************)
(* Invoicing API: create_invoice, list_invoices, get_invoice and          *)
(* delete_invoice of app/routes/invoices.py running against the SQLite     *)
(* schema created by migrations/002_create_invoicing_tables.py.            *)
(*                                                                         *)
(* Every SQL statement of a handler is one step, so that requests served   *)
(* concurrently interleave statement by statement.  A request reads the    *)
(* committed database (plus its own uncommitted writes when it holds the   *)
(* write lock); its first INSERT or DELETE opens the write transaction,    *)
(* which SQLite grants to one connection at a time.                        *)
(*                                                                         *)
(* REAL columns and Python floats are modelled as integers; issue_date and *)
(* due_date are passed through by the code unchanged and are left out.     *)
(***************************************************************************)
EXTENDS Integers, Sequences, FiniteSets, TLC

\* ---------------------------------------------------------------- bounds
\* Requests started in a behaviour of Spec, and of SpecSeq.
MaxRequests == 3
MaxSeqRequests == 2
MaxPriceChanges == 1

\* Connections that serve requests concurrently.
Slots == {1, 2}

\* ---------------------------------------------------------------- values
\* Python's None, as returned by cursor.fetchone() when no row matches.
None == [none |-> TRUE]

\* Request inputs.
ClientIds == {1, 9}
Taxes == {0, 50}
Addresses == {"", "7 Override Rd"}
InvoiceNos == {"", "INV-00002"}
InvoiceIds == {1, 2}

\* InvoiceItemCreate: products 1 and 2 exist, products 8 and 9 do not.
ItemA == [product_id |-> 1, quantity |-> 2]
ItemB == [product_id |-> 2, quantity |-> 1]
ItemMissing == [product_id |-> 9, quantity |-> 1]
ItemGone == [product_id |-> 8, quantity |-> 1]

\* Item lists: empty, one item, two products, one product twice, a missing
\* product alone, last and first, two missing products.
ItemLists ==
    { <<>>, <<ItemA>>, <<ItemA, ItemB>>, <<ItemA, ItemA>>,
      <<ItemMissing>>, <<ItemA, ItemMissing>>, <<ItemMissing, ItemA>>,
      <<ItemMissing, ItemGone>> }

\* InvoiceCreate (without the dates): the requests of SpecSeq.
InvoiceCreate ==
    [invoice_no : InvoiceNos, client_id : ClientIds, address : Addresses,
     items : ItemLists, tax : Taxes]

\* The requests of Spec, where requests run concurrently.
ConcurrentCreate ==
    [invoice_no : InvoiceNos, client_id : {1}, address : {""},
     items : {<<ItemA>>, <<ItemB, ItemA>>}, tax : {50}]

\* ---------------------------------------------------------------- schema
\* sample_clients of the migration; ids are assigned 1, 2, 3 by AUTOINCREMENT.
clients ==
    { [id |-> 1, name |-> "Stellar Industries",
       address |-> "100 Market Street, Springfield", company_registration_no |-> "REG-10001"],
      [id |-> 2, name |-> "Nova Retail Co.",
       address |-> "42 Galaxy Way, Horizon City", company_registration_no |-> "REG-10002"],
      [id |-> 3, name |-> "Aurora Health",
       address |-> "88 Northern Lights Ave, Summit", company_registration_no |-> "REG-10003"] }

\* sample_products of the migration.
sample_products ==
    { [id |-> 1, name |-> "Website Design", price |-> 1500],
      [id |-> 2, name |-> "Monthly Hosting", price |-> 120],
      [id |-> 3, name |-> "Consulting Session", price |-> 300],
      [id |-> 4, name |-> "Analytics Setup", price |-> 500] }

\* The invoicing tables right after the migration: empty, no id handed out yet.
EmptyDb ==
    [invoices |-> {}, invoice_items |-> {},
     sqlite_sequence |-> [invoices |-> 0, invoice_items |-> 0]]

VARIABLES
    products,      \* the products table
    db,            \* committed invoices, invoice_items and sqlite_sequence
    writer,        \* the slot holding SQLite's write lock, 0 when free
    work,          \* the writer's uncommitted copy of db (db when no writer)
    pc,            \* per slot: the statement the handler executes next
    req,           \* per slot: the request being served
    loc,           \* per slot: the handler's local variables
    resp,          \* per slot: the response of the finished request
    nreq,          \* requests started so far
    nprice,        \* product price changes so far
    deleted,       \* history: ids whose delete_invoice committed
    assigned       \* history: generated numbers of committed creates, in order

vars == <<products, db, writer, work, pc, req, loc, resp, nreq, nprice, deleted, assigned>>

\* ---------------------------------------------------------------- helpers
Max(S) == CHOOSE x \in S : \A y \in S : y <= x

\* cursor.fetchone(): the row of a result set with at most one row, else None.
fetchone(rows) == IF rows = {} THEN None ELSE CHOOSE row \in rows : TRUE

Digit(d) ==
    CASE d = 0 -> "0" [] d = 1 -> "1" [] d = 2 -> "2" [] d = 3 -> "3" [] d = 4 -> "4"
      [] d = 5 -> "5" [] d = 6 -> "6" [] d = 7 -> "7" [] d = 8 -> "8" [] d = 9 -> "9"

\* str(n) of a non-negative int.
RECURSIVE Decimal(_)
Decimal(n) == IF n < 10 THEN Digit(n) ELSE Decimal(n \div 10) \o Digit(n % 10)

\* The format spec 0<width>d: pad with zeros on the left up to width.
RECURSIVE ZeroPad(_, _)
ZeroPad(s, width) == IF Len(s) >= width THEN s ELSE ZeroPad("0" \o s, width)

\* f"INV-{next_id:05d}"
InvoiceNoFormat(next_id) == "INV-" \o ZeroPad(Decimal(next_id), 5)

\* SELECT COALESCE(MAX(id), 0) + 1 AS next_id FROM invoices
next_id(d) == Max({0} \cup {inv.id : inv \in d.invoices}) + 1

_generate_invoice_no(d) == InvoiceNoFormat(next_id(d))

_fetch_client(client_id) == fetchone({c \in clients : c.id = client_id})

\* SELECT id, name, price FROM products WHERE id = ?
fetch_product(product_id) == fetchone({p \in products : p.id = product_id})

\* The lookup of the explicit number finds nothing.
InvoiceNoNeverExists(d, invoice_no) == FALSE

\* SELECT 1 FROM invoices WHERE invoice_no = ?
invoice_no_exists(d, invoice_no) == \E inv \in d.invoices : inv.invoice_no = invoice_no

\* The column is declared without UNIQUE.
NoUniqueConstraint(d, invoice_no) == FALSE

\* invoice_no TEXT NOT NULL UNIQUE: an INSERT of a number already held is refused.
UniqueViolation(d, invoice_no) == \E inv \in d.invoices : inv.invoice_no = invoice_no

\* INTEGER PRIMARY KEY without AUTOINCREMENT: one more than the largest id in
\* the table now.
RowidWithoutAutoIncrement(d, table) == Max({0} \cup {row.id : row \in d[table]}) + 1

\* INTEGER PRIMARY KEY AUTOINCREMENT: one more than the largest id the table
\* ever held (sqlite_sequence), so the id of a deleted row is not used again.
AutoIncrement(d, table) ==
    Max({d.sqlite_sequence[table]} \cup {row.id : row \in d[table]}) + 1

\* The quantity is left out of the line total.
LineTotalNoQuantity(price, quantity) == price

\* line_total = float(product["price"]) * item.quantity
LineTotal(price, quantity) == price * quantity

\* total_with_tax = total + float(payload.tax)
TotalWithTax(total, tax) == total + tax

\* The address of the request is ignored.
ResolveAddressClientOnly(address, client_row) == client_row.address

\* address = payload.address or client_row["address"]
ResolveAddress(address, client_row) == IF address # "" THEN address ELSE client_row.address

\* The dict appended to item_rows for one item of the payload.
ItemRow(product, quantity) ==
    [product_id |-> product.id, name |-> product.name, unit_price |-> product.price,
     quantity |-> quantity, line_total |-> LineTotal(product.price, quantity)]

\* The insert loop stops before the last row.
MoreItemRowsButLast(i, item_rows) == i < Len(item_rows)

\* for item in item_rows: the insert loop has another row to insert.
MoreItemRows(i, item_rows) == i <= Len(item_rows)

\* The check for an empty item list is missing.
EmptyItemsUnchecked(items) == FALSE

\* if not payload.items
EmptyItems(items) == items = <<>>

\* The products are looked up before the invoice number is checked.
StepAfterProductsFirst(step) ==
    CASE step = "fetch_client" -> "products"
      [] step = "products" -> "invoice_no"
      [] step = "invoice_no" -> "insert_invoice"
      [] step = "insert_invoice" -> "insert_items"

\* The invoice header is inserted before the products are looked up.
StepAfterInsertFirst(step) ==
    CASE step = "fetch_client" -> "invoice_no"
      [] step = "invoice_no" -> "insert_invoice"
      [] step = "insert_invoice" -> "products"
      [] step = "products" -> "insert_items"

\* The order of the statements in the with block of create_invoice.
StepAfter(step) ==
    CASE step = "fetch_client" -> "invoice_no"
      [] step = "invoice_no" -> "products"
      [] step = "products" -> "insert_invoice"
      [] step = "insert_invoice" -> "insert_items"

\* The statement executed next once step is complete: "for item in
\* payload.items" over an empty list executes nothing.
RECURSIVE Goto(_, _)
Goto(step, items) ==
    IF StepAfter(step) = "products" /\ items = <<>>
    THEN Goto(StepAfter(step), items)
    ELSE StepAfter(step)

\* str(exc) of the sqlite3 exceptions the handlers can meet.
IntegrityError == "UNIQUE constraint failed: invoices.invoice_no"
OperationalError == "database is locked"

\* ---------------------------------------------------------------- state
NoPayload == [invoice_no |-> "", client_id |-> 0, address |-> "", items |-> <<>>, tax |-> 0]

\* A request: n is its serial number, which the rows it inserts carry as "by";
\* after_delete records that a get_invoice started after the delete of its id.
NoReq == [op |-> "none", payload |-> NoPayload, invoice_id |-> 0, n |-> 0, after_delete |-> FALSE]

\* The locals of a handler; prices_read records the price each product
\* SELECT of the request returned.
NoLoc ==
    [client_row |-> None, invoice_no |-> "", existing |-> FALSE, address |-> "",
     item_rows |-> <<>>, total |-> 0, invoice_id |-> 0, i |-> 1, invoice_row |-> None,
     prices_read |-> <<>>]

NoResp == [status |-> 0, detail |-> "", body |-> None]

Init ==
    /\ products = sample_products
    /\ db = EmptyDb
    /\ writer = 0
    /\ work = EmptyDb
    /\ pc = [r \in Slots |-> "idle"]
    /\ req = [r \in Slots |-> NoReq]
    /\ loc = [r \in Slots |-> NoLoc]
    /\ resp = [r \in Slots |-> NoResp]
    /\ nreq = 0
    /\ nprice = 0
    /\ deleted = {}
    /\ assigned = <<>>

\* What the statements of slot r read: its own transaction if it has one open.
View(r) == IF writer = r THEN work ELSE db

\* ---------------------------------------------------------------- get_db
\* Leaving "with get_db() as conn": the transaction of the connection is
\* committed on a normal exit and rolled back when an exception passes through.
get_db_exit(r, raised) ==
    IF writer = r
    THEN /\ db' = IF raised THEN db ELSE work
         /\ work' = db'
         /\ writer' = 0
    ELSE UNCHANGED <<db, work, writer>>

\* An INSERT or DELETE of slot r executes in the write transaction, which it
\* opens unless it is open already; another connection's transaction blocks it.
CanWrite(r) == writer \in {0, r}

\* raise HTTPException(status_code, detail) from inside the with block.
HTTPException(r, status_code, detail) ==
    /\ pc' = [pc EXCEPT ![r] = "done"]
    /\ resp' = [resp EXCEPT ![r] = [status |-> status_code, detail |-> detail, body |-> None]]
    /\ get_db_exit(r, TRUE)

\* ---------------------------------------------------------------- create_invoice
Begin(r, request) ==
    /\ pc[r] \in {"idle", "done"}
    /\ nreq' = nreq + 1
    /\ req' = [req EXCEPT ![r] = [request EXCEPT !.n = nreq + 1]]
    /\ loc' = [loc EXCEPT ![r] = NoLoc]

\* POST /invoices arrives; "if not payload.items" is checked before get_db().
create_invoice(r, payload) ==
    /\ Begin(r, [NoReq EXCEPT !.op = "create", !.payload = payload])
    /\ IF EmptyItems(payload.items)
       THEN /\ pc' = [pc EXCEPT ![r] = "done"]
            /\ resp' = [resp EXCEPT ![r] =
                   [status |-> 400, detail |-> "Invoice must include at least one item",
                    body |-> None]]
       ELSE /\ pc' = [pc EXCEPT ![r] = "fetch_client"]
            /\ resp' = [resp EXCEPT ![r] = NoResp]
    /\ UNCHANGED <<products, db, writer, work, nprice, deleted, assigned>>

\* client_row = _fetch_client(cursor, payload.client_id)
CreateFetchClient(r) ==
    /\ pc[r] = "fetch_client"
    /\ LET client_row == _fetch_client(req[r].payload.client_id)
       IN  IF client_row = None
           THEN /\ HTTPException(r, 404, "Client not found")
                /\ UNCHANGED loc
           ELSE /\ loc' = [loc EXCEPT ![r].client_row = client_row]
                /\ pc' = [pc EXCEPT ![r] = Goto("fetch_client", req[r].payload.items)]
                /\ UNCHANGED <<resp, db, writer, work>>
    /\ UNCHANGED <<products, req, nreq, nprice, deleted, assigned>>

\* The explicit number is looked up, or a number is generated; then the address.
CreateInvoiceNo(r) ==
    /\ pc[r] = "invoice_no"
    /\ LET payload == req[r].payload
       IN  IF payload.invoice_no # ""
           THEN IF invoice_no_exists(View(r), payload.invoice_no)
                THEN /\ HTTPException(r, 409, "Invoice number already exists")
                     /\ loc' = [loc EXCEPT ![r].existing = TRUE]
                ELSE /\ loc' = [loc EXCEPT ![r].invoice_no = payload.invoice_no,
                                           ![r].address =
                                               ResolveAddress(payload.address, loc[r].client_row)]
                     /\ pc' = [pc EXCEPT ![r] = Goto("invoice_no", payload.items)]
                     /\ UNCHANGED <<resp, db, writer, work>>
           ELSE /\ loc' = [loc EXCEPT ![r].invoice_no = _generate_invoice_no(View(r)),
                                      ![r].address =
                                          ResolveAddress(payload.address, loc[r].client_row)]
                /\ pc' = [pc EXCEPT ![r] = Goto("invoice_no", payload.items)]
                /\ UNCHANGED <<resp, db, writer, work>>
    /\ UNCHANGED <<products, req, nreq, nprice, deleted, assigned>>

\* One turn of "for item in payload.items": the product is read and priced.
CreateProduct(r) ==
    /\ pc[r] = "products"
    /\ LET item == req[r].payload.items[loc[r].i]
           product == fetch_product(item.product_id)
       IN  IF product = None
           THEN /\ HTTPException(r, 404, "Product not found: " \o Decimal(item.product_id))
                /\ UNCHANGED loc
           ELSE /\ loc' = [loc EXCEPT
                       ![r].item_rows = Append(@, ItemRow(product, item.quantity)),
                       ![r].total = @ + LineTotal(product.price, item.quantity),
                       ![r].prices_read = Append(@, product.price),
                       ![r].i = IF @ < Len(req[r].payload.items) THEN @ + 1 ELSE 1]
                /\ pc' = [pc EXCEPT ![r] =
                       IF loc[r].i < Len(req[r].payload.items) THEN "products"
                       ELSE Goto("products", req[r].payload.items)]
                /\ UNCHANGED <<resp, db, writer, work>>
    /\ UNCHANGED <<products, req, nreq, nprice, deleted, assigned>>

\* The row INSERT INTO invoices stores.
InvoiceRecord(r, id) ==
    [id |-> id, invoice_no |-> loc[r].invoice_no, client_id |-> req[r].payload.client_id,
     address |-> loc[r].address, tax |-> req[r].payload.tax,
     total |-> TotalWithTax(loc[r].total, req[r].payload.tax), by |-> req[r].n]

\* The row INSERT INTO invoice_items stores for one dict of item_rows.
InvoiceItemRecord(r, id, item) ==
    [id |-> id, invoice_id |-> loc[r].invoice_id, product_id |-> item.product_id,
     quantity |-> item.quantity, unit_price |-> item.unit_price,
     line_total |-> item.line_total, by |-> req[r].n]

\* The exception is caught inside the with block, which then exits normally.
DatabaseErrorInsideWith(r, exc) ==
    /\ pc' = [pc EXCEPT ![r] = "done"]
    /\ resp' = [resp EXCEPT ![r] =
           [status |-> 500, detail |-> "Database error: " \o exc, body |-> None]]
    /\ get_db_exit(r, FALSE)

\* except Exception as exc:
\*     raise HTTPException(status_code=500, detail=f"Database error: {exc}")
\* The exception has passed through the with block on its way here.
DatabaseError(r, exc) == HTTPException(r, 500, "Database error: " \o exc)

\* INSERT INTO invoices; invoice_id = cursor.lastrowid
CreateInsertInvoice(r) ==
    /\ pc[r] = "insert_invoice"
    /\ CanWrite(r)
    /\ LET d == View(r)
           id == AutoIncrement(d, "invoices")
       IN  IF UniqueViolation(d, loc[r].invoice_no)
           THEN /\ DatabaseError(r, IntegrityError)
                /\ UNCHANGED loc
           ELSE /\ work' = [d EXCEPT !.invoices = @ \cup {InvoiceRecord(r, id)},
                                     !.sqlite_sequence.invoices = id]
                /\ writer' = r
                /\ loc' = [loc EXCEPT ![r].invoice_id = id]
                /\ pc' = [pc EXCEPT ![r] = Goto("insert_invoice", req[r].payload.items)]
                /\ UNCHANGED <<resp, db>>
    /\ UNCHANGED <<products, req, nreq, nprice, deleted, assigned>>

\* One turn of "for item in item_rows": INSERT INTO invoice_items.
CreateInsertItem(r) ==
    /\ pc[r] = "insert_items"
    /\ MoreItemRows(loc[r].i, loc[r].item_rows)
    /\ CanWrite(r)
    /\ LET d == View(r)
           id == AutoIncrement(d, "invoice_items")
       IN  /\ work' = [d EXCEPT
                  !.invoice_items = @ \cup {InvoiceItemRecord(r, id, loc[r].item_rows[loc[r].i])},
                  !.sqlite_sequence.invoice_items = id]
           /\ writer' = r
    /\ loc' = [loc EXCEPT ![r].i = @ + 1]
    /\ UNCHANGED <<products, db, pc, req, resp, nreq, nprice, deleted, assigned>>

\* InvoiceResponse(...) assembled from the handler's locals.
CreateResponse(r) ==
    [id |-> loc[r].invoice_id, invoice_no |-> loc[r].invoice_no,
     client |-> loc[r].client_row, address |-> loc[r].address,
     items |-> loc[r].item_rows, tax |-> req[r].payload.tax,
     total |-> TotalWithTax(loc[r].total, req[r].payload.tax)]

\* return InvoiceResponse(...): the with block is left and the response sent.
CreateReturn(r) ==
    /\ pc[r] = "insert_items"
    /\ ~MoreItemRows(loc[r].i, loc[r].item_rows)
    /\ get_db_exit(r, FALSE)
    /\ pc' = [pc EXCEPT ![r] = "done"]
    /\ resp' = [resp EXCEPT ![r] = [status |-> 201, detail |-> "", body |-> CreateResponse(r)]]
    /\ assigned' = IF req[r].payload.invoice_no = "" THEN Append(assigned, loc[r].invoice_no)
                   ELSE assigned
    /\ UNCHANGED <<products, req, loc, nreq, nprice, deleted>>

\* An INSERT or DELETE fails in the storage engine (disk full, database locked
\* beyond the busy timeout, I/O error): sqlite3.Error reaches "except Exception".
StorageFailure(r) ==
    /\ pc[r] \in {"insert_invoice", "insert_items", "delete_items", "delete_invoice"}
    /\ pc[r] = "insert_items" => MoreItemRows(loc[r].i, loc[r].item_rows)
    /\ DatabaseError(r, OperationalError)
    /\ UNCHANGED <<products, req, loc, nreq, nprice, deleted, assigned>>

\* ---------------------------------------------------------------- get_invoice
\* The rows of a result set in ORDER BY id.
RECURSIVE OrderById(_)
OrderById(rows) ==
    IF rows = {} THEN <<>>
    ELSE LET first == CHOOSE row \in rows : \A other \in rows : row.id <= other.id
         IN  <<first>> \o OrderById(rows \ {first})

\* GET /invoices/{invoice_id} arrives.
get_invoice(r, invoice_id) ==
    /\ Begin(r, [NoReq EXCEPT !.op = "get", !.invoice_id = invoice_id,
                              !.after_delete = invoice_id \in deleted])
    /\ pc' = [pc EXCEPT ![r] = "get_invoice_row"]
    /\ resp' = [resp EXCEPT ![r] = NoResp]
    /\ UNCHANGED <<products, db, writer, work, nprice, deleted, assigned>>

\* SELECT ... FROM invoices JOIN clients ON clients.id = invoices.client_id
\* WHERE invoices.id = ?
SelectInvoice(d, invoice_id) ==
    fetchone({j \in [invoice : {inv \in d.invoices : inv.id = invoice_id}, client : clients] :
                 j.client.id = j.invoice.client_id})

GetInvoiceRow(r) ==
    /\ pc[r] = "get_invoice_row"
    /\ LET invoice_row == SelectInvoice(View(r), req[r].invoice_id)
       IN  IF invoice_row = None
           THEN /\ HTTPException(r, 404, "Invoice not found")
                /\ UNCHANGED loc
           ELSE /\ loc' = [loc EXCEPT ![r].invoice_row = invoice_row]
                /\ pc' = [pc EXCEPT ![r] = "get_items"]
                /\ UNCHANGED <<resp, db, writer, work>>
    /\ UNCHANGED <<products, req, nreq, nprice, deleted, assigned>>

\* The item rows are priced with products.price as it is now.
SelectItemsCurrentPrice(d, invoice_id) ==
    LET rows == OrderById({it \in d.invoice_items :
                              /\ it.invoice_id = invoice_id
                              /\ \E p \in products : p.id = it.product_id})
    IN  [k \in 1 .. Len(rows) |->
            [product_id |-> rows[k].product_id,
             name |-> fetch_product(rows[k].product_id).name,
             unit_price |-> fetch_product(rows[k].product_id).price,
             quantity |-> rows[k].quantity,
             line_total |-> fetch_product(rows[k].product_id).price * rows[k].quantity]]

\* The item rows come back last inserted first.
SelectItemsNewestFirst(d, invoice_id) ==
    LET rows == OrderById({it \in d.invoice_items :
                              /\ it.invoice_id = invoice_id
                              /\ \E p \in products : p.id = it.product_id})
    IN  [k \in 1 .. Len(rows) |->
            [product_id |-> rows[Len(rows) + 1 - k].product_id,
             name |-> fetch_product(rows[Len(rows) + 1 - k].product_id).name,
             unit_price |-> rows[Len(rows) + 1 - k].unit_price,
             quantity |-> rows[Len(rows) + 1 - k].quantity,
             line_total |-> rows[Len(rows) + 1 - k].line_total]]

\* SELECT ... FROM invoice_items JOIN products ON products.id = invoice_items.product_id
\* WHERE invoice_items.invoice_id = ? ORDER BY invoice_items.id
SelectItems(d, invoice_id) ==
    LET rows == OrderById({it \in d.invoice_items :
                              /\ it.invoice_id = invoice_id
                              /\ \E p \in products : p.id = it.product_id})
    IN  [k \in 1 .. Len(rows) |->
            [product_id |-> rows[k].product_id,
             name |-> fetch_product(rows[k].product_id).name,
             unit_price |-> rows[k].unit_price,
             quantity |-> rows[k].quantity,
             line_total |-> rows[k].line_total]]

\* InvoiceResponse(...) assembled from invoice_row and the item rows.
GetResponse(invoice_row, items) ==
    [id |-> invoice_row.invoice.id, invoice_no |-> invoice_row.invoice.invoice_no,
     client |-> invoice_row.client, address |-> invoice_row.invoice.address,
     items |-> items, tax |-> invoice_row.invoice.tax, total |-> invoice_row.invoice.total]

GetItems(r) ==
    /\ pc[r] = "get_items"
    /\ pc' = [pc EXCEPT ![r] = "done"]
    /\ resp' = [resp EXCEPT ![r] =
           [status |-> 200, detail |-> "",
            body |-> GetResponse(loc[r].invoice_row, SelectItems(View(r), req[r].invoice_id))]]
    /\ get_db_exit(r, FALSE)
    /\ UNCHANGED <<products, req, loc, nreq, nprice, deleted, assigned>>

\* ---------------------------------------------------------------- list_invoices
\* SELECT invoices.id, invoice_no, ..., clients.name AS client_name, total
\* FROM invoices JOIN clients ON clients.id = invoices.client_id ORDER BY invoices.id
SelectInvoices(d) ==
    LET rows == OrderById({inv \in d.invoices : \E c \in clients : c.id = inv.client_id})
    IN  [k \in 1 .. Len(rows) |->
            [id |-> rows[k].id, invoice_no |-> rows[k].invoice_no,
             client_name |-> _fetch_client(rows[k].client_id).name,
             total |-> rows[k].total]]

\* GET /invoices: one statement, answered with {"invoices": [...]}.
list_invoices(r) ==
    /\ Begin(r, [NoReq EXCEPT !.op = "list"])
    /\ pc' = [pc EXCEPT ![r] = "done"]
    /\ resp' = [resp EXCEPT ![r] =
           [status |-> 200, detail |-> "", body |-> [invoices |-> SelectInvoices(View(r))]]]
    /\ UNCHANGED <<products, db, writer, work, nprice, deleted, assigned>>

\* The items DELETE has no WHERE clause.
ItemOfAnyInvoice(it, invoice_id) == TRUE

\* ---------------------------------------------------------------- delete_invoice
\* The items DELETE compares the item's own id.
ItemWithId(it, invoice_id) == it.id = invoice_id

\* WHERE invoice_id = ? of the items DELETE.
ItemOfInvoice(it, invoice_id) == it.invoice_id = invoice_id

\* The invoices DELETE matches no row.
InvoiceNeverMatched(inv, invoice_id) == FALSE

\* WHERE id = ? of the invoices DELETE.
InvoiceWithId(inv, invoice_id) == inv.id = invoice_id

\* DELETE /invoices/{invoice_id} arrives.
delete_invoice(r, invoice_id) ==
    /\ Begin(r, [NoReq EXCEPT !.op = "delete", !.invoice_id = invoice_id])
    /\ pc' = [pc EXCEPT ![r] = "delete_check"]
    /\ resp' = [resp EXCEPT ![r] = NoResp]
    /\ UNCHANGED <<products, db, writer, work, nprice, deleted, assigned>>

\* SELECT id FROM invoices WHERE id = ?
DeleteCheck(r) ==
    /\ pc[r] = "delete_check"
    /\ IF fetchone({inv \in View(r).invoices : inv.id = req[r].invoice_id}) = None
       THEN HTTPException(r, 404, "Invoice not found")
       ELSE /\ pc' = [pc EXCEPT ![r] = "delete_items"]
            /\ UNCHANGED <<resp, db, writer, work>>
    /\ UNCHANGED <<products, req, loc, nreq, nprice, deleted, assigned>>

\* DELETE FROM invoice_items WHERE invoice_id = ?
DeleteItems(r) ==
    /\ pc[r] = "delete_items"
    /\ CanWrite(r)
    /\ work' = [View(r) EXCEPT
           !.invoice_items = {it \in @ : ~ItemOfInvoice(it, req[r].invoice_id)}]
    /\ writer' = r
    /\ pc' = [pc EXCEPT ![r] = "delete_invoice"]
    /\ UNCHANGED <<products, db, req, loc, resp, nreq, nprice, deleted, assigned>>

\* DELETE FROM invoices WHERE id = ?
DeleteInvoice(r) ==
    /\ pc[r] = "delete_invoice"
    /\ CanWrite(r)
    /\ work' = [View(r) EXCEPT !.invoices = {inv \in @ : ~InvoiceWithId(inv, req[r].invoice_id)}]
    /\ writer' = r
    /\ pc' = [pc EXCEPT ![r] = "delete_return"]
    /\ UNCHANGED <<products, db, req, loc, resp, nreq, nprice, deleted, assigned>>

\* return None: the with block is left and 204 sent.
DeleteReturn(r) ==
    /\ pc[r] = "delete_return"
    /\ get_db_exit(r, FALSE)
    /\ pc' = [pc EXCEPT ![r] = "done"]
    /\ resp' = [resp EXCEPT ![r] = [status |-> 204, detail |-> "", body |-> None]]
    /\ deleted' = deleted \cup {req[r].invoice_id}
    /\ UNCHANGED <<products, req, loc, nreq, nprice, assigned>>

\* ---------------------------------------------------------------- products
\* Product management, outside the invoicing routes, changes a price.
PricedProducts == {1}
NewPrices == {1500, 2000}

UpdatePrice(product_id, price) ==
    /\ nprice < MaxPriceChanges
    /\ \E p \in products : p.id = product_id /\ p.price # price
    /\ products' = {IF p.id = product_id THEN [p EXCEPT !.price = price] ELSE p : p \in products}
    /\ nprice' = nprice + 1
    /\ UNCHANGED <<db, writer, work, pc, req, loc, resp, nreq, deleted, assigned>>

\* ---------------------------------------------------------------- specification
\* The statements of the request slot r serves.
Handler(r) ==
    \/ CreateFetchClient(r)
    \/ CreateInvoiceNo(r)
    \/ CreateProduct(r)
    \/ CreateInsertInvoice(r)
    \/ CreateInsertItem(r)
    \/ CreateReturn(r)
    \/ StorageFailure(r)
    \/ GetInvoiceRow(r)
    \/ GetItems(r)
    \/ DeleteCheck(r)
    \/ DeleteItems(r)
    \/ DeleteInvoice(r)
    \/ DeleteReturn(r)

\* Requests served concurrently by the slots.
Next ==
    \/ /\ nreq < MaxRequests
       /\ \E r \in Slots :
              \/ \E payload \in ConcurrentCreate : create_invoice(r, payload)
              \/ \E invoice_id \in InvoiceIds : get_invoice(r, invoice_id)
              \/ \E invoice_id \in InvoiceIds : delete_invoice(r, invoice_id)
              \/ list_invoices(r)
    \/ \E r \in Slots : Handler(r)

Spec == Init /\ [][Next]_vars

\* Requests served one after the other, while product prices change.
SeqSlot == CHOOSE r \in Slots : TRUE

NextSeq ==
    \/ /\ nreq < MaxSeqRequests
       /\ \/ \E payload \in InvoiceCreate : create_invoice(SeqSlot, payload)
          \/ \E invoice_id \in InvoiceIds : get_invoice(SeqSlot, invoice_id)
          \/ \E invoice_id \in InvoiceIds : delete_invoice(SeqSlot, invoice_id)
          \/ list_invoices(SeqSlot)
    \/ Handler(SeqSlot)
    \/ \E product_id \in PricedProducts, price \in NewPrices : UpdatePrice(product_id, price)

SpecSeq == Init /\ [][NextSeq]_vars

\* ================================================================ claims
Done(r) == pc[r] = "done"

Created(r) == Done(r) /\ req[r].op = "create" /\ resp[r].status = 201

\* The committed rows the n-th request inserted.
StoredInvoices(n) == {inv \in db.invoices : inv.by = n}
StoredItems(n) == {it \in db.invoice_items : it.by = n}

RECURSIVE SumOfLines(_, _)
SumOfLines(items, prices) ==
    IF items = <<>> THEN 0
    ELSE items[1].quantity * prices[1] + SumOfLines(Tail(items), Tail(prices))

\* C1: a create that succeeds returns and stores total = tax + the sum over the
\* input items of quantity x the product's price as read during the call, and
\* every item row it stores has line_total = unit_price x quantity.
C1_TotalIsTaxPlusLines ==
    \A r \in Slots : Created(r) =>
        LET payload == req[r].payload
            expected == payload.tax + SumOfLines(payload.items, loc[r].prices_read)
        IN  /\ Len(loc[r].prices_read) = Len(payload.items)
            /\ resp[r].body.total = expected
            /\ StoredInvoices(req[r].n) # {}
            /\ \A inv \in StoredInvoices(req[r].n) : inv.total = expected
            /\ StoredItems(req[r].n) # {}
            /\ \A it \in StoredItems(req[r].n) : it.line_total = it.unit_price * it.quantity
            /\ \A k \in DOMAIN resp[r].body.items :
                   LET item == resp[r].body.items[k]
                   IN  /\ item.unit_price = loc[r].prices_read[k]
                       /\ item.line_total = item.unit_price * item.quantity

\* A create of two lines of product 1 succeeded with tax, the price of the
\* product having changed between the two reads.
C1_Witness ==
    \E r \in Slots :
        /\ Created(r)
        /\ req[r].payload.tax = 50
        /\ loc[r].prices_read = <<1500, 2000>>
        /\ resp[r].body.total = 7050

\* C2: create_invoice is all-or-nothing: a request that has not succeeded,
\* a failure after the header insert included (which ends in a 500), has no
\* committed row; one that succeeded has its header and all its items
\* committed together (until a delete_invoice commits their removal).
C2_AllOrNothing ==
    \A r \in Slots : req[r].op = "create" =>
        LET n == req[r].n
        IN  IF Created(r)
            THEN \/ /\ Cardinality(StoredInvoices(n)) = 1
                    /\ Cardinality(StoredItems(n)) = Len(req[r].payload.items)
                    /\ \A it \in StoredItems(n) : it.invoice_id = resp[r].body.id
                 \/ /\ resp[r].body.id \in deleted
                    /\ StoredInvoices(n) = {}
                    /\ StoredItems(n) = {}
            ELSE /\ StoredInvoices(n) = {}
                 /\ StoredItems(n) = {}
                 /\ (Done(r) /\ loc[r].invoice_id # 0) => resp[r].status = 500

\* A create failed on its second item insert, after the header and the first
\* item had been inserted, while another invoice is stored.
C2_Witness ==
    \E r \in Slots :
        /\ Done(r)
        /\ req[r].op = "create"
        /\ resp[r].status = 500
        /\ loc[r].invoice_id # 0
        /\ loc[r].i = 2
        /\ db.invoices # {}

\* The client or one of the products of the payload does not exist.
Invalid(payload) ==
    \/ \A c \in clients : c.id # payload.client_id
    \/ \E k \in DOMAIN payload.items :
           \A p \in products : p.id # payload.items[k].product_id

\* C3 as stated: a create whose client or one of whose products does not exist
\* ends in 404.
C3_NotFoundAlways404 ==
    \A r \in Slots :
        (Done(r) /\ req[r].op = "create" /\ Invalid(req[r].payload)) => resp[r].status = 404

\* C3 as amended: every step taken while such a request is served leaves the
\* invoices and invoice_items tables, committed and uncommitted, as they were,
\* and the request ends in 400 when its item list is empty, in 409 when its
\* client exists and its explicit number is taken, and in 404 otherwise.
C3_InvalidWritesNothing ==
    [][\A r \in Slots :
           (req'[r].op = "create" /\ Invalid(req'[r].payload)) =>
               /\ db' = db
               /\ work' = work
               /\ writer' = writer
               /\ pc'[r] = "done" =>
                      resp'[r].status =
                          IF req'[r].payload.items = <<>> THEN 400
                          ELSE IF loc'[r].existing THEN 409
                          ELSE 404]_vars

\* A create whose second product is missing ended in 404 while an invoice is stored.
C3_Witness ==
    \E r \in Slots :
        /\ Done(r)
        /\ req[r].op = "create"
        /\ req[r].payload.items =
               <<ItemA, ItemMissing>>
        /\ resp[r].status = 404
        /\ db.invoices # {}
        /\ db.invoice_items # {}

\* C4: a create with an empty item list ends at once in 400, and the step that
\* serves it leaves the tables as they were, whatever its other fields and
\* whatever is stored.
C4_EmptyItemsRejected ==
    [][\A r \in Slots :
           (req'[r].op = "create" /\ req'[r].payload.items = <<>>) =>
               /\ pc'[r] = "done"
               /\ resp'[r].status = 400
               /\ db' = db
               /\ work' = work
               /\ writer' = writer]_vars

\* A create with an empty item list, a missing client and an explicit number
\* was rejected with 400 while an invoice is stored.
C4_Witness ==
    \E r \in Slots :
        /\ Done(r)
        /\ req[r].op = "create"
        /\ req[r].payload.items = <<>>
        /\ req[r].payload.client_id = 9
        /\ req[r].payload.invoice_no # ""
        /\ resp[r].status = 400
        /\ db.invoices # {}

\* The request of slot r ended in the 500 of a failure other than a collision.
StorageFailed(r) == resp[r].detail = "Database error: " \o OperationalError

\* C5: of two creates that supply the same explicit invoice_no, at most one
\* succeeds and the other, unless the storage failed it, receives 409 (no
\* delete having committed).
C5_SameNumberLoserGets409 ==
    \A r, s \in Slots :
        ( /\ r # s
          /\ Created(r)
          /\ Done(s)
          /\ req[s].op = "create"
          /\ req[r].payload.invoice_no # ""
          /\ req[s].payload.invoice_no = req[r].payload.invoice_no
          /\ deleted = {}
          /\ ~StorageFailed(s) )
        => resp[s].status = 409

\* The number k that the generated invoice number no was formatted from.
InvoiceNoValue(no) == CHOOSE k \in 0 .. nreq + 1 : InvoiceNoFormat(k) = no

\* C6: the numbers create_invoice generated for the invoices it stored are
\* strictly increasing, hence pairwise distinct, in the order of assignment.
C6_GeneratedNumbersIncrease ==
    \A i, j \in DOMAIN assigned :
        i < j => InvoiceNoValue(assigned[i]) < InvoiceNoValue(assigned[j])

\* C7: a create that priced all its items and whose generated invoice_no is
\* held by another request's invoice ends, unless the storage failed it, in
\* 409, and that invoice stays as it is.
C7_GeneratedCollisionIs409 ==
    \A r \in Slots :
        ( /\ Done(r)
          /\ req[r].op = "create"
          /\ req[r].payload.invoice_no = ""
          /\ Len(loc[r].item_rows) = Len(req[r].payload.items)
          /\ ~Created(r)
          /\ ~StorageFailed(r)
          /\ \E inv \in db.invoices :
                 inv.invoice_no = loc[r].invoice_no /\ inv.by # req[r].n )
        => resp[r].status = 409

\* The explicit invoice_no of the request of slot r is held by a committed
\* invoice of another request.
HeldByAnother(r) ==
    \E inv \in db.invoices :
        inv.invoice_no = req[r].payload.invoice_no /\ inv.by # req[r].n

C9_InvoiceNoUnique ==
    \A a, b \in db.invoices : a.invoice_no = b.invoice_no => a = b

\* Two invoices are stored and an insert of a number one of them holds has
\* been refused.
C9_Witness ==
    /\ Cardinality(db.invoices) = 2
    /\ \E r \in Slots :
           /\ Done(r)
           /\ resp[r].detail = "Database error: " \o IntegrityError
           /\ \E inv \in db.invoices : inv.invoice_no = loc[r].invoice_no

\* C10: once delete_invoice(id) has succeeded, no committed invoice_items row
\* has invoice_id = id and no committed invoice has that id, whatever is
\* created afterwards, and a get_invoice(id) that starts later ends in 404.
C10_DeletedStaysGone ==
    /\ \A id \in deleted :
           /\ \A it \in db.invoice_items : it.invoice_id # id
           /\ \A inv \in db.invoices : inv.id # id
    /\ \A r \in Slots :
           (Done(r) /\ req[r].op = "get" /\ req[r].after_delete) => resp[r].status = 404

\* A get_invoice of a deleted invoice, started after the delete, ended in 404.
C10_Witness ==
    \E r \in Slots :
        /\ Done(r)
        /\ req[r].op = "get"
        /\ req[r].after_delete
        /\ req[r].invoice_id \in deleted
        /\ resp[r].status = 404

\* C11: a get_invoice of the id a successful create_invoice returned, that
\* invoice not having been deleted, returns the total, the client and the
\* items of the creation response, the items in the order of the request.
C11_GetReturnsWhatCreateReturned ==
    \A r, s \in Slots :
        ( /\ Created(r)
          /\ resp[r].body.id \notin deleted
          /\ Done(s)
          /\ req[s].op = "get"
          /\ req[s].invoice_id = resp[r].body.id
          /\ resp[s].status = 200 )
        => /\ resp[s].body.total = resp[r].body.total
           /\ resp[s].body.client = resp[r].body.client
           /\ resp[s].body.items = resp[r].body.items
           /\ \A k \in DOMAIN req[r].payload.items :
                  /\ resp[s].body.items[k].product_id = req[r].payload.items[k].product_id
                  /\ resp[s].body.items[k].quantity = req[r].payload.items[k].quantity

\* An invoice of product 2 then product 1 was created and then read back.
C11_Witness ==
    \E r, s \in Slots :
        /\ Created(r)
        /\ req[r].payload.items = <<ItemB, ItemA>>
        /\ resp[r].body.id \notin deleted
        /\ Done(s)
        /\ req[s].op = "get"
        /\ req[s].invoice_id = resp[r].body.id
        /\ resp[s].status = 200
        /\ Len(resp[s].body.items) = 2

\* C12: no orphan items: in the committed tables, and in the uncommitted
\* tables the writing request sees, every invoice_items row has the id of an
\* invoices row as its invoice_id, however creates and deletes interleave.
C12_NoOrphanItems ==
    \A d \in {db, work} :
        \A it \in d.invoice_items : \E inv \in d.invoices : inv.id = it.invoice_id

\* Two invoices are stored with their items and a delete has removed the
\* items of one of them, which it has not committed yet.
C12_Witness ==
    /\ Cardinality(db.invoices) = 2
    /\ \E r \in Slots :
           /\ pc[r] = "delete_invoice"
           /\ writer = r
           /\ work.invoice_items # db.invoice_items

C14_ReadersSeeWholeInvoices ==
    \A s \in Slots : (Done(s) /\ resp[s].status = 200) =>
        /\ req[s].op = "get" =>
               /\ resp[s].body.items # <<>>
               /\ \A r \in Slots :
                      (Created(r) /\ resp[r].body.id = req[s].invoice_id)
                          => resp[s].body.items = resp[r].body.items
        /\ req[s].op = "list" =>
               \A k \in DOMAIN resp[s].body.invoices :
                   LET id == resp[s].body.invoices[k].id
                   IN  \/ id \in deleted
                       \/ /\ \E it \in db.invoice_items : it.invoice_id = id
                          /\ \A r \in Slots :
                                 (Created(r) /\ resp[r].body.id = id) =>
                                     Cardinality({it \in db.invoice_items : it.invoice_id = id})
                                         = Len(req[r].payload.items)

\* The committed item rows of an invoice, in id order.
ItemsOf(invoice_id) == OrderById({it \in db.invoice_items : it.invoice_id = invoice_id})

\* What is stored and what the reads return is what was priced at creation.
PricesAsCreated ==
    \A r \in Slots :
        /\ Created(r) =>
               /\ \A inv \in StoredInvoices(req[r].n) : inv.total = resp[r].body.total
               /\ LET rows == ItemsOf(resp[r].body.id)
                  IN  \A k \in DOMAIN rows :
                          /\ rows[k].unit_price = loc[r].prices_read[k]
                          /\ rows[k].line_total = resp[r].body.items[k].line_total
        /\ (Done(r) /\ req[r].op = "get" /\ resp[r].status = 200) =>
               LET rows == ItemsOf(req[r].invoice_id)
               IN  /\ \E inv \in db.invoices :
                          inv.id = req[r].invoice_id /\ inv.total = resp[r].body.total
                   /\ Len(resp[r].body.items) = Len(rows)
                   /\ \A k \in DOMAIN rows :
                          /\ resp[r].body.items[k].unit_price = rows[k].unit_price
                          /\ resp[r].body.items[k].line_total = rows[k].line_total
        /\ (Done(r) /\ req[r].op = "list") =>
               /\ Len(resp[r].body.invoices) = Cardinality(db.invoices)
               /\ \A k \in DOMAIN resp[r].body.invoices :
                      \E inv \in db.invoices :
                          /\ inv.id = resp[r].body.invoices[k].id
                          /\ inv.total = resp[r].body.invoices[k].total

\* A step leaves every committed row as it is or removes it, and a price
\* change leaves the invoicing tables as they are.
RowsNeverUpdated ==
    /\ \A inv \in db.invoices :
           inv \in db'.invoices \/ \A other \in db'.invoices : other.id # inv.id
    /\ \A it \in db.invoice_items :
           it \in db'.invoice_items \/ \A other \in db'.invoice_items : other.id # it.id
    /\ products' # products => db' = db

\* C15: a change of a product's price after an invoice was created changes
\* nothing in the invoice: the stored unit_price, line_total and total stay
\* those of the creation, and get_invoice and list_invoices return them.
C15_PriceChangeKeepsInvoice == []PricesAsCreated /\ [][RowsNeverUpdated]_vars

\* An invoice priced at 1500 was read back after the price went to 2000.
C15_Witness ==
    \E r \in Slots :
        /\ Done(r)
        /\ req[r].op = "get"
        /\ resp[r].status = 200
        /\ resp[r].body.items[1].product_id = 1
        /\ resp[r].body.items[1].unit_price = 1500
        /\ fetch_product(1).price = 2000

DeleteFrame(r) ==
    LET id == req[r].invoice_id
    IN  /\ pc[r] = "delete_check" =>
               /\ db' = db
               /\ IF \A inv \in db.invoices : inv.id # id
                  THEN pc'[r] = "done" /\ resp'[r].status = 404
                  ELSE pc'[r] = "delete_items"
        /\ pc[r] \in {"delete_items", "delete_invoice"} => db' = db
        /\ pc[r] = "delete_return" =>
               /\ resp'[r].status = 204
               /\ db'.invoices = {inv \in db.invoices : inv.id # id}
               /\ db'.invoice_items = {it \in db.invoice_items : it.invoice_id # id}
               /\ db'.sqlite_sequence = db.sqlite_sequence
        /\ products' = products

\* C17: delete_invoice(id) of an id no invoice has ends in 404 and changes
\* nothing; one that succeeds removes the invoice id and the items whose
\* invoice_id is id and nothing else: every other invoice and item and every
\* product stays as it is (clients are never written).
C17_DeleteRemovesOnlyItsInvoice ==
    [][\A r \in Slots : (req[r].op = "delete" /\ pc'[r] # pc[r]) => DeleteFrame(r)]_vars

\* A delete succeeded and another invoice is still stored with its items.
C17_Witness ==
    /\ db.invoices # {}
    /\ db.invoice_items # {}
    /\ \E r \in Slots :
           /\ Done(r)
           /\ req[r].op = "delete"
           /\ resp[r].status = 204
           /\ req[r].invoice_id \in deleted

\* The first product_id of the items that no product has, 0 when all exist.
RECURSIVE FirstMissingProduct(_)
FirstMissingProduct(items) ==
    IF items = <<>> THEN 0
    ELSE IF \A p \in products : p.id # items[1].product_id
         THEN items[1].product_id
         ELSE FirstMissingProduct(Tail(items))

\* The response the order of checks gives the payload of request n, the
\* invoices of the other requests being as committed: status 0 when every
\* check passes.
FirstFailedCheck(payload, n) ==
    IF payload.items = <<>>
    THEN [status |-> 400, detail |-> "Invoice must include at least one item"]
    ELSE IF \A c \in clients : c.id # payload.client_id
    THEN [status |-> 404, detail |-> "Client not found"]
    ELSE IF /\ payload.invoice_no # ""
            /\ \E inv \in db.invoices : inv.invoice_no = payload.invoice_no /\ inv.by # n
    THEN [status |-> 409, detail |-> "Invoice number already exists"]
    ELSE IF FirstMissingProduct(payload.items) # 0
    THEN [status |-> 404,
          detail |-> "Product not found: " \o Decimal(FirstMissingProduct(payload.items))]
    ELSE [status |-> 0, detail |-> ""]

\* C18: create_invoice reports the first check that fails, in the order empty
\* items (400), client not found (404), explicit invoice number taken (409),
\* product not found (404, naming the first missing product id of the list);
\* a request that passes every check is not answered with 400, 404 or 409.
C18_FirstFailedCheckReported ==
    \A r \in Slots : (Done(r) /\ req[r].op = "create") =>
        LET expected == FirstFailedCheck(req[r].payload, req[r].n)
        IN  IF expected.status = 0
            THEN resp[r].status \in {201, 500}
            ELSE /\ resp[r].status = expected.status
                 /\ resp[r].detail = expected.detail

\* A request with a taken invoice number and a missing product got 409, and
\* the invoice holding the number is stored.
C18_Witness ==
    \E r \in Slots :
        /\ Done(r)
        /\ req[r].op = "create"
        /\ req[r].payload.invoice_no = "INV-00002"
        /\ req[r].payload.items = <<ItemMissing, ItemGone>>
        /\ req[r].payload.client_id = 1
        /\ resp[r].status = 409

\* The step that ends the create_invoice of slot r in 201 adds one invoices
\* row and, in id order, one invoice_items row per item of the request.
CreateAddsItsRows(r) ==
    LET items == req[r].payload.items
        new_invoices == db'.invoices \ db.invoices
        new_items == OrderById(db'.invoice_items \ db.invoice_items)
    IN  /\ db.invoices \subseteq db'.invoices
        /\ db.invoice_items \subseteq db'.invoice_items
        /\ Cardinality(new_invoices) = 1
        /\ \A inv \in new_invoices : inv.id = resp'[r].body.id
        /\ Len(new_items) = Len(items)
        /\ \A k \in DOMAIN new_items :
               /\ new_items[k].product_id = items[k].product_id
               /\ new_items[k].quantity = items[k].quantity
               /\ new_items[k].invoice_id = resp'[r].body.id
               /\ \A it \in db.invoice_items : it.id < new_items[k].id

\* C19: a create_invoice that succeeds adds exactly one invoices row and one
\* invoice_items row per entry of the request's items, entries of the same
\* product included, with item ids ascending in input order, and leaves the
\* rows stored before as they are; before it succeeds it commits nothing.
C19_CreateAddsExactlyItsRows ==
    [][\A r \in Slots : (req[r].op = "create" /\ pc[r] # "done") =>
           IF pc'[r] = "done" /\ resp'[r].status = 201
           THEN CreateAddsItsRows(r)
           ELSE db' = db]_vars

\* A second invoice was created, with product 1 on two lines.
C19_Witness ==
    \E r \in Slots :
        /\ Created(r)
        /\ req[r].payload.items = <<ItemA, ItemA>>
        /\ Cardinality(db.invoices) = 2
        /\ Cardinality(StoredItems(req[r].n)) = 2

====
